---- MODULE Spec2Model ----
(***************************************************************************)
(* Frame-production loops of stytra/hardware/video/__init__.py:            *)
(* CameraSource.run and the two branches of VideoFileSource.run (the h5    *)
(* branch and the cv2 video-file branch), together with their environment: *)
(* the sender of control dictionaries, the consumers of the frame queue    *)
(* and the owner of the kill event.                                        *)
(*                                                                         *)
(* A frame is identified by its sequence index (a natural number).  Time   *)
(* is abstracted: the pacing sleeps change no state except prt.  The calls *)
(* cam.set(param, value) and update_framerate() change no state of the     *)
(* loops and are left out.  self.state is a mapping from attribute names   *)
(* to values: reading a name it does not hold raises AttributeError.       *)
(* The variables iters, sent, applied, forwarded, killed_at, last,         *)
(* wrap_offset and iter_start record the history of a run; the loops      *)
(* never read them.                                                        *)
(***************************************************************************)
EXTENDS Integers, Sequences, FiniteSets, TLC

\* ------------------------------------------------------------------ bounds
MaxIter == 4            \* loop iterations begun in one run
MaxControl == 2         \* control dictionaries sent in one run
NFrames == 2            \* frames.shape[0] / frame count of the video file
MaxConsumers == 2       \* largest n_consumers constructor argument
RingLenDefault == 2     \* stands for the default ring_buffer_length (600)

\* --------------------------------------------------------------- constants
None == -1              \* Python None where a frame is expected
EmptySlot == -2         \* a ring buffer slot that was never written
QueueSlack == 2         \* the "+ 2" of the admission check
DefaultFps == 30        \* framedata.get("framerate", 30.0)
ReplayFpsDefault == 15  \* CameraControlParameters.replay_fps

VARIABLES
    variant,            \* which run loop this process executes
    pc,                 \* position of the loop
    raised,             \* name of the exception that ended the loop, or ""
    iters,              \* iterations begun
    kill_event,         \* self.kill_event
    killed_at,          \* Len(forwarded) when the kill event was set, or None
    control_queue,      \* self.control_queue: dictionaries in flight
    sent,               \* number of dictionaries sent so far
    frame_queue,        \* self.frame_queue: frames pending for the consumers
    forwarded,          \* every frame ever put on frame_queue, in order,
                        \* with the mode of the iteration that put it
    message_queue,      \* self.message_queue
    n_consumers_arg,    \* the n_consumers argument of the constructor
    n_consumers,        \* self.n_consumers
    rotation,           \* self.rotation
    camera_type_valid,  \* camera_type is a key of camera_class_dict
    cam,                \* the camera: "none", "open" or "released"
    produced,           \* frames the camera has returned so far
    state,              \* self.state (CameraControlParameters values)
    ring_buffer,        \* self.ring_buffer
    prt,                \* local prt: FALSE is None, TRUE is a time stamp
    last,               \* what the last finished step of the loop did
    loop,               \* self.loop
    offset,             \* self.offset
    paused,             \* self.paused
    delta_t,            \* local delta_t, kept as the frame rate it encodes
    i_frame,            \* local i_frame of the h5 branch
    cap_pos,            \* cv2 capture: index of the next frame to decode
    ret,                \* local ret of the video-file branch
    frame,              \* local frame of the video-file branch
    old_frame,          \* self.old_frame
    wrap_offset,        \* self.offset at the last wrap not yet followed by
                        \* an emitted frame, or None
    applied,            \* the control dictionaries received so far
    iter_start          \* the number of control dictionaries sent before
                        \* the iteration in progress began; 0 between the
                        \* frame step of one iteration and the next begin

vars == << variant, pc, raised, iters, kill_event, killed_at, control_queue,
           sent, frame_queue, forwarded, message_queue, n_consumers_arg,
           n_consumers, rotation, camera_type_valid, cam, produced, state,
           ring_buffer, prt, last, loop, offset, paused, delta_t, i_frame,
           cap_pos, ret, frame, old_frame, wrap_offset, applied, iter_start >>

envVars == << kill_event, killed_at, control_queue, sent, applied >>
camVars == << cam, produced, state, ring_buffer >>
fileVars == << loop, offset, paused, delta_t, i_frame, cap_pos, ret, frame,
               old_frame, wrap_offset >>
ctorVars == << variant, n_consumers_arg, n_consumers, rotation,
               camera_type_valid >>

\* ------------------------------------------------------------- ring buffer
\* RingBuffer is imported from stytra.hardware.video.ring_buffer; its
\* operations follow section 4.1 of the specification: put never fails,
\* get and get_most_recent fail on a slot that was never written.
NoRingBuffer == [length |-> 0, arr |-> << >>, insert_idx |-> 0, read_idx |-> 0]

RingBuffer(length) ==
    [length |-> length, arr |-> [k \in 1..length |-> EmptySlot],
     insert_idx |-> 0, read_idx |-> 0]

RbPut(rb, item) ==
    [rb EXCEPT !.arr = [rb.arr EXCEPT ![rb.insert_idx + 1] = item],
               !.insert_idx = (rb.insert_idx + 1) % rb.length]

RbGetFails(rb) == rb.arr[rb.read_idx + 1] = EmptySlot

RbGetItem(rb) == rb.arr[rb.read_idx + 1]

RbGetAdvance(rb) == [rb EXCEPT !.read_idx = (rb.read_idx + 1) % rb.length]

RbMostRecentFails(rb) ==
    rb.arr[((rb.insert_idx - 1) % rb.length) + 1] = EmptySlot

RbMostRecent(rb) == rb.arr[((rb.insert_idx - 1) % rb.length) + 1]

\* ------------------------------------------------------------ environment
CameraDicts ==
    { [paused |-> b] : b \in BOOLEAN } \cup
    { [replay |-> b] : b \in BOOLEAN } \cup
    { [paused |-> b, replay |-> r] : b, r \in BOOLEAN } \cup
    { [replay_fps |-> 0] } \cup
    { [ring_buffer_length |-> RingLenDefault + 1] }

FileDicts ==
    { [paused |-> b] : b \in BOOLEAN } \cup
    { [offset |-> o] : o \in 0..NFrames } \cup
    { [framerate |-> 100] }

Dicts == IF variant = "camera" THEN CameraDicts ELSE FileDicts

Running == pc \notin {"done", "crashed", "failed"}

\* The configuration layer puts a dictionary on the control queue.
Send ==
    /\ Running
    /\ sent < MaxControl
    /\ \E d \in Dicts : control_queue' = Append(control_queue, d)
    /\ sent' = sent + 1
    /\ UNCHANGED << pc, raised, iters, kill_event, killed_at, frame_queue,
                    forwarded, message_queue, prt, last, applied >>
    /\ UNCHANGED << ctorVars, camVars, fileVars >>
    /\ UNCHANGED iter_start

\* The owner of the process sets the kill event.
Kill ==
    /\ Running
    /\ ~kill_event
    /\ kill_event' = TRUE
    /\ killed_at' = Len(forwarded)
    /\ UNCHANGED << pc, raised, iters, control_queue, sent, frame_queue,
                    forwarded, message_queue, prt, last, applied >>
    /\ UNCHANGED << ctorVars, camVars, fileVars >>
    /\ UNCHANGED iter_start

\* A consumer takes the oldest pending frame.
Consume ==
    /\ frame_queue # << >>
    /\ frame_queue' = Tail(frame_queue)
    /\ UNCHANGED << pc, raised, iters, forwarded, message_queue, prt, last >>
    /\ UNCHANGED << envVars, ctorVars, camVars, fileVars >>
    /\ UNCHANGED iter_start

\* ----------------------------------------------------------- shared steps
\* frame_queue.put(f)
Put(f, m) ==
    /\ frame_queue' = Append(frame_queue, f)
    /\ forwarded' = Append(forwarded, [frame |-> f, mode |-> m])

NoPut == UNCHANGED << frame_queue, forwarded >>

\* An exception leaves run(): nothing after the raising statement executes.
Raise(name) ==
    /\ pc' = "crashed"
    /\ raised' = name

Goto(p) ==
    /\ pc' = p
    /\ UNCHANGED raised

\* A kill check that never sees the event.
IsSetNever(ev) == FALSE

\* is_set() of the kill event, as the three loops read it.
IsSet(ev) == ev

\* What an iteration finds when it begins: the dictionaries received so
\* far and the ones still pending in the control queue.
IterStart == Len(applied) + Len(control_queue)

NoLast == [mode |-> "none", arr |-> None, put |-> None, dropped |-> FALSE,
           qsize |-> 0, got |-> FALSE, after_wrap |-> None]

\* ------------------------------------------------------- CameraSource.run
\* VideoSource.__init__ stores the constant 1, whatever the argument.
InitNConsumers(arg) == 1

\* CameraControlParameters.__init__: the declared parameters and defaults.
CameraControlParameters ==
    [ring_buffer_length |-> RingLenDefault, replay |-> TRUE,
     replay_fps |-> ReplayFpsDefault]

\* self.state.values = param_dict
SetValues(st, param_dict) == param_dict @@ st

HasAttr(st, name) == name \in DOMAIN st

\* Lines 135-140: look the camera class up and open the camera.
OpenCamera ==
    /\ variant = "camera"
    /\ pc = "start"
    /\ IF camera_type_valid
         THEN /\ cam' = "open"
              /\ message_queue' = Append(message_queue, "I:")
              /\ Goto("top")
         ELSE /\ pc' = "failed"
              /\ raised' = "Exception"
              /\ UNCHANGED << cam, message_queue >>
    /\ UNCHANGED << iters, frame_queue, forwarded, prt, last, produced,
                    state, ring_buffer >>
    /\ UNCHANGED << envVars, ctorVars, fileVars >>
    /\ UNCHANGED iter_start

\* Lines 142-146 and 192: the kill check; on break the camera is released.
CamCheckKill ==
    /\ variant = "camera"
    /\ pc = "top"
    /\ IF IsSet(kill_event)
         THEN /\ cam' = "released"
              /\ Goto("done")
              /\ UNCHANGED << iters, iter_start >>
         ELSE /\ iters < MaxIter
              /\ iters' = iters + 1
              /\ iter_start' = IterStart
              /\ Goto("drain")
              /\ UNCHANGED cam
    /\ UNCHANGED << frame_queue, forwarded, message_queue, prt, last,
                    produced, state, ring_buffer >>
    /\ UNCHANGED << envVars, ctorVars, fileVars >>

\* Lines 151-156: one successful control_queue.get of the drain loop.
CamDrain ==
    /\ variant = "camera"
    /\ pc = "drain"
    /\ control_queue # << >>
    /\ state' = SetValues(state, Head(control_queue))
    /\ control_queue' = Tail(control_queue)
    /\ applied' = Append(applied, Head(control_queue))
    /\ UNCHANGED << pc, raised, iters, kill_event, killed_at, sent,
                    frame_queue, forwarded, message_queue, prt, last, cam,
                    produced, ring_buffer >>
    /\ UNCHANGED << ctorVars, fileVars >>
    /\ UNCHANGED iter_start

\* Lines 157-158: the get times out (Empty) and the drain loop is left.
CamDrainEmpty ==
    /\ variant = "camera"
    /\ pc = "drain"
    /\ control_queue = << >>
    /\ Goto("body")
    /\ UNCHANGED << iters, frame_queue, forwarded, message_queue, prt, last >>
    /\ UNCHANGED << envVars, ctorVars, camVars, fileVars >>
    /\ UNCHANGED iter_start

\* Line 164, second operand: self.state.ring_buffer is read, and
\* CameraControlParameters has no such attribute.
RingBufferCheckRaises(rb, st) ==
    rb # NoRingBuffer /\ ~HasAttr(st, "ring_buffer")

\* Line 164: the condition under which a new RingBuffer is made.
RingBufferStale(rb, st) ==
    rb = NoRingBuffer \/ st.ring_buffer_length # st.ring_buffer.length

\* Lines 169-182: the branch an iteration takes.
ModeOf(st) ==
    IF st.paused THEN "paused"
    ELSE IF st.replay /\ st.replay_fps > 0 THEN "replay"
    ELSE "live"

\* Line 187: the number of pending frames from which frames are dropped.
Threshold == n_consumers + QueueSlack

\* Line 187: the admission check.
Admits(qsize, n) == qsize < n + QueueSlack

\* The None test of line 185 left out.
ShouldForwardAny(arr, st) == ~st.paused

\* Line 185: a frame is offered to the queue only when it is a frame.
ShouldForward(arr, st) == arr # None /\ ~st.paused

\* Lines 183-190: the Live branch, given the frame read and the ring buffer.
LiveBranch(arr, rb) ==
    /\ ring_buffer' = RbPut(rb, arr)
    /\ prt' = FALSE
    /\ Goto("top")
    /\ IF ShouldForward(arr, state)
         THEN IF Admits(Len(frame_queue), n_consumers)
                THEN /\ Put(arr, "live")
                     /\ UNCHANGED message_queue
                     /\ last' = [NoLast EXCEPT !.mode = "live", !.arr = arr,
                                   !.put = arr, !.qsize = Len(frame_queue)]
                ELSE /\ NoPut
                     /\ message_queue' =
                            Append(message_queue, "W:Dropped frame")
                     /\ last' = [NoLast EXCEPT !.mode = "live", !.arr = arr,
                                   !.dropped = TRUE,
                                   !.qsize = Len(frame_queue)]
         ELSE /\ NoPut
              /\ UNCHANGED message_queue
              /\ last' = [NoLast EXCEPT !.mode = "live", !.arr = arr]

\* Lines 169-170: the Paused branch.
PausedBranch(arr, rb) ==
    /\ ring_buffer' = rb
    /\ UNCHANGED << message_queue, prt >>
    /\ IF RbMostRecentFails(rb)
         THEN /\ Raise("ValueError")
              /\ NoPut
              /\ last' = [NoLast EXCEPT !.mode = "paused", !.arr = arr]
         ELSE /\ Goto("top")
              /\ Put(RbMostRecent(rb), "paused")
              /\ last' = [NoLast EXCEPT !.mode = "paused", !.arr = arr,
                            !.put = RbMostRecent(rb)]

\* The Replay branch without the try/except around get().
ReplayBranchNoCatch(arr, rb) ==
    /\ UNCHANGED message_queue
    /\ prt' = TRUE
    /\ IF RbGetFails(rb)
         THEN /\ Raise("ValueError")
              /\ ring_buffer' = rb
              /\ NoPut
              /\ last' = [NoLast EXCEPT !.mode = "replay", !.arr = arr,
                            !.got = TRUE]
         ELSE /\ Goto("top")
              /\ ring_buffer' = RbGetAdvance(rb)
              /\ Put(RbGetItem(rb), "replay")
              /\ last' = [NoLast EXCEPT !.mode = "replay", !.arr = arr,
                            !.put = RbGetItem(rb), !.got = TRUE]

\* Lines 171-181: the Replay branch; a ValueError of get() is swallowed.
ReplayBranch(arr, rb) ==
    /\ UNCHANGED message_queue
    /\ prt' = TRUE
    /\ Goto("top")
    /\ IF RbGetFails(rb)
         THEN /\ ring_buffer' = rb
              /\ NoPut
              /\ last' = [NoLast EXCEPT !.mode = "replay", !.arr = arr,
                            !.got = TRUE]
         ELSE /\ ring_buffer' = RbGetAdvance(rb)
              /\ Put(RbGetItem(rb), "replay")
              /\ last' = [NoLast EXCEPT !.mode = "replay", !.arr = arr,
                            !.put = RbGetItem(rb), !.got = TRUE]

\* An exception before the branch: the statements before it have run.
BodyRaises(name, arr, rb) ==
    /\ Raise(name)
    /\ ring_buffer' = rb
    /\ NoPut
    /\ UNCHANGED << message_queue, prt >>
    /\ last' = [NoLast EXCEPT !.mode = "raised", !.arr = arr]

\* Lines 161-190: read a frame, renew the ring buffer, branch on the mode.
CamBody ==
    /\ variant = "camera"
    /\ pc = "body"
    /\ \E arr \in {produced, None} :
        /\ produced' = IF arr = None THEN produced ELSE produced + 1
        /\ IF rotation /\ arr = None
             THEN BodyRaises("ValueError", arr, ring_buffer)
           ELSE IF RingBufferCheckRaises(ring_buffer, state)
             THEN BodyRaises("AttributeError", arr, ring_buffer)
           ELSE LET rb == IF RingBufferStale(ring_buffer, state)
                            THEN RingBuffer(state.ring_buffer_length)
                            ELSE ring_buffer
                IN IF ~HasAttr(state, "paused")
                     THEN BodyRaises("AttributeError", arr, rb)
                   ELSE IF ModeOf(state) = "paused"
                     THEN PausedBranch(arr, rb)
                   ELSE IF ModeOf(state) = "replay"
                     THEN ReplayBranch(arr, rb)
                   ELSE LiveBranch(arr, rb)
    /\ UNCHANGED << iters, cam, state >>
    /\ UNCHANGED << envVars, ctorVars, fileVars >>
    /\ iter_start' = 0

\* ------------------------------------------------ VideoFileSource.run
\* Lines 246-247 and 301-302: the "framerate" entry of a dictionary.
NewDeltaT(d, dt) == IF "framerate" \in DOMAIN d THEN d.framerate ELSE dt

\* The comparison with the current offset left out.
OffsetChangesAlways(d, off) == "offset" \in DOMAIN d

\* Lines 248-250 and 303-306: the "offset" entry; TRUE when it is applied.
OffsetChanges(d, off) == "offset" \in DOMAIN d /\ d.offset # off

NewOffset(d, off) == IF OffsetChanges(d, off) THEN d.offset ELSE off

\* Lines 251-252 and 307-308: the "paused" entry.
NewPaused(d, p) == IF "paused" \in DOMAIN d THEN d.paused ELSE p

\* Lines 229-236: load the h5 file; i_frame starts at self.offset.
H5Start ==
    /\ variant = "h5"
    /\ pc = "start"
    /\ i_frame' = offset
    /\ delta_t' = DefaultFps
    /\ prt' = FALSE
    /\ Goto("top")
    /\ UNCHANGED << iters, frame_queue, forwarded, message_queue, last, loop,
                    offset, paused, cap_pos, ret, frame, old_frame,
                    wrap_offset >>
    /\ UNCHANGED << envVars, ctorVars, camVars >>
    /\ UNCHANGED iter_start

\* Line 237: the loop condition.
H5Check ==
    /\ variant = "h5"
    /\ pc = "top"
    /\ IF IsSet(kill_event)
         THEN /\ Goto("done")
              /\ UNCHANGED << iters, iter_start >>
         ELSE /\ iters < MaxIter
              /\ iters' = iters + 1
              /\ iter_start' = IterStart
              /\ Goto("drain")
    /\ UNCHANGED << frame_queue, forwarded, message_queue, prt, last >>
    /\ UNCHANGED << envVars, ctorVars, camVars, fileVars >>

\* Lines 242-252: one successful control_queue.get of the drain loop.
H5Drain ==
    /\ variant = "h5"
    /\ pc = "drain"
    /\ control_queue # << >>
    /\ LET d == Head(control_queue)
       IN /\ delta_t' = NewDeltaT(d, delta_t)
          /\ offset' = NewOffset(d, offset)
          /\ paused' = NewPaused(d, paused)
          /\ applied' = Append(applied, d)
    /\ control_queue' = Tail(control_queue)
    /\ UNCHANGED << pc, raised, iters, kill_event, killed_at, sent,
                    frame_queue, forwarded, message_queue, prt, last, loop,
                    i_frame, cap_pos, ret, frame, old_frame, wrap_offset >>
    /\ UNCHANGED << ctorVars, camVars >>
    /\ UNCHANGED iter_start

\* Lines 253-254: the get times out (Empty) and the drain loop is left.
H5DrainEmpty ==
    /\ variant = "h5"
    /\ pc = "drain"
    /\ control_queue = << >>
    /\ Goto("emit")
    /\ UNCHANGED << iters, frame_queue, forwarded, message_queue, prt, last >>
    /\ UNCHANGED << envVars, ctorVars, camVars, fileVars >>
    /\ UNCHANGED iter_start

\* frames[i_frame, :, :] raises IndexError outside the first axis.
InFile(i) == i >= 0 /\ i < NFrames

\* The end-of-stream test taken one frame early.
EndOfStreamEarly(i) == i = NFrames - 1

\* Line 265: the end-of-stream test.
EndOfStream(i) == i = NFrames

\* Line 267: where a looping h5 source restarts.
H5WrapTarget(off) == off

\* Lines 262-271: emit frames[i_frame], advance, wrap or stop.
H5Emit ==
    /\ variant = "h5"
    /\ pc = "emit"
    /\ IF ~InFile(i_frame)
         THEN /\ Raise("IndexError")
              /\ NoPut
              /\ last' = [NoLast EXCEPT !.mode = "raised"]
              /\ UNCHANGED << i_frame, prt, wrap_offset >>
         ELSE LET next == IF paused THEN i_frame ELSE i_frame + 1
              IN /\ Put(i_frame, "file")
                 /\ IF EndOfStream(next)
                      THEN IF loop
                             THEN /\ i_frame' = H5WrapTarget(offset)
                                  /\ wrap_offset' = offset
                                  /\ prt' = TRUE
                                  /\ Goto("top")
                                  /\ last' = [NoLast EXCEPT !.mode = "wrap",
                                                !.put = i_frame,
                                                !.after_wrap = wrap_offset]
                             ELSE /\ i_frame' = next
                                  /\ wrap_offset' = None
                                  /\ Goto("done")
                                  /\ UNCHANGED prt
                                  /\ last' = [NoLast EXCEPT !.mode = "end",
                                                !.put = i_frame,
                                                !.after_wrap = wrap_offset]
                      ELSE /\ i_frame' = next
                           /\ wrap_offset' = None
                           /\ prt' = TRUE
                           /\ Goto("top")
                           /\ last' = [NoLast EXCEPT !.mode = "emit",
                                         !.put = i_frame,
                                         !.after_wrap = wrap_offset]
    /\ UNCHANGED << iters, message_queue, loop, offset, paused, delta_t,
                    cap_pos, ret, frame, old_frame >>
    /\ UNCHANGED << envVars, ctorVars, camVars >>
    /\ iter_start' = 0

\* Lines 275-286: open the capture.
VidStart ==
    /\ variant = "video"
    /\ pc = "start"
    /\ cap_pos' = 0
    /\ ret' = TRUE
    /\ delta_t' = DefaultFps
    /\ prt' = FALSE
    /\ Goto("top")
    /\ UNCHANGED << iters, frame_queue, forwarded, message_queue, last, loop,
                    offset, paused, i_frame, frame, old_frame, wrap_offset >>
    /\ UNCHANGED << envVars, ctorVars, camVars >>
    /\ UNCHANGED iter_start

\* cap.read(): the decoded frame, or (False, None) past the last frame.
CapReadRet(pos) == InFile(pos)

CapReadFrame(pos) == IF InFile(pos) THEN pos ELSE None

CapReadPos(pos) == IF InFile(pos) THEN pos + 1 ELSE pos

\* Lines 287-292: the loop condition, then the frame of this iteration.
VidRead ==
    /\ variant = "video"
    /\ pc = "top"
    /\ IF ~(ret /\ ~IsSet(kill_event))
         THEN /\ Goto("done")
              /\ UNCHANGED << iters, ret, frame, cap_pos, iter_start >>
         ELSE /\ iters < MaxIter
              /\ iters' = iters + 1
              /\ iter_start' = IterStart
              /\ Goto("ctl")
              /\ IF paused
                   THEN /\ ret' = TRUE
                        /\ frame' = old_frame
                        /\ UNCHANGED cap_pos
                   ELSE /\ ret' = CapReadRet(cap_pos)
                        /\ frame' = CapReadFrame(cap_pos)
                        /\ cap_pos' = CapReadPos(cap_pos)
    /\ UNCHANGED << frame_queue, forwarded, message_queue, prt, last, loop,
                    offset, paused, delta_t, i_frame, old_frame,
                    wrap_offset >>
    /\ UNCHANGED << envVars, ctorVars, camVars >>

\* Lines 297-308: the single control_queue.get of an iteration succeeds.
VidControl ==
    /\ variant = "video"
    /\ pc = "ctl"
    /\ control_queue # << >>
    /\ LET d == Head(control_queue)
       IN /\ delta_t' = NewDeltaT(d, delta_t)
          /\ cap_pos' = IF OffsetChanges(d, offset) THEN d.offset ELSE cap_pos
          /\ offset' = NewOffset(d, offset)
          /\ paused' = NewPaused(d, paused)
          /\ applied' = Append(applied, d)
    /\ control_queue' = Tail(control_queue)
    /\ Goto("emit")
    /\ UNCHANGED << iters, kill_event, killed_at, sent, frame_queue,
                    forwarded, message_queue, prt, last, loop, i_frame, ret,
                    frame, old_frame, wrap_offset >>
    /\ UNCHANGED << ctorVars, camVars >>
    /\ UNCHANGED iter_start

\* Lines 309-310: the get times out (Empty).
VidControlEmpty ==
    /\ variant = "video"
    /\ pc = "ctl"
    /\ control_queue = << >>
    /\ Goto("emit")
    /\ UNCHANGED << iters, frame_queue, forwarded, message_queue, prt, last >>
    /\ UNCHANGED << envVars, ctorVars, camVars, fileVars >>
    /\ UNCHANGED iter_start

\* Line 321: where a looping video-file source restarts.
VidWrapTarget(off) == 0

\* Lines 317-328: emit the frame, or at end-of-stream rewind or stop.
VidEmit ==
    /\ variant = "video"
    /\ pc = "emit"
    /\ IF ret
         THEN IF frame = None
                THEN /\ Raise("TypeError")
                     /\ NoPut
                     /\ last' = [NoLast EXCEPT !.mode = "raised"]
                     /\ UNCHANGED << cap_pos, ret, old_frame, prt,
                                     wrap_offset >>
                ELSE /\ Put(frame, "file")
                     /\ Goto("top")
                     /\ prt' = TRUE
                     /\ old_frame' = frame
                     /\ wrap_offset' = None
                     /\ last' = [NoLast EXCEPT !.mode = "emit",
                                   !.put = frame,
                                   !.after_wrap = wrap_offset]
                     /\ UNCHANGED << cap_pos, ret >>
         ELSE /\ NoPut
              /\ IF loop
                   THEN /\ cap_pos' = VidWrapTarget(offset)
                        /\ ret' = TRUE
                        /\ wrap_offset' = offset
                        /\ prt' = TRUE
                        /\ old_frame' = frame
                        /\ Goto("top")
                        /\ last' = [NoLast EXCEPT !.mode = "wrap"]
                   ELSE /\ Goto("done")
                        /\ last' = [NoLast EXCEPT !.mode = "end"]
                        /\ UNCHANGED << cap_pos, ret, old_frame, prt,
                                        wrap_offset >>
    /\ UNCHANGED << iters, message_queue, loop, offset, paused, delta_t,
                    i_frame, frame >>
    /\ UNCHANGED << envVars, ctorVars, camVars >>
    /\ iter_start' = 0

\* ------------------------------------------------------------ the system
Init ==
    /\ variant \in {"camera", "h5", "video"}
    /\ pc = "start"
    /\ raised = ""
    /\ iters = 0
    /\ kill_event = FALSE
    /\ killed_at = None
    /\ control_queue = << >>
    /\ sent = 0
    /\ applied = << >>
    /\ iter_start = 0
    /\ frame_queue = << >>
    /\ forwarded = << >>
    /\ message_queue = << >>
    /\ n_consumers_arg \in
         IF variant = "camera" THEN 1..MaxConsumers ELSE {1}
    /\ n_consumers = InitNConsumers(n_consumers_arg)
    /\ rotation \in IF variant = "camera" THEN BOOLEAN ELSE {FALSE}
    /\ camera_type_valid \in IF variant = "camera" THEN BOOLEAN ELSE {TRUE}
    /\ cam = "none"
    /\ produced = 0
    /\ state = CameraControlParameters
    /\ ring_buffer = NoRingBuffer
    /\ prt = FALSE
    /\ last = NoLast
    /\ loop \in IF variant = "camera" THEN {TRUE} ELSE BOOLEAN
    /\ offset = 0
    /\ paused = FALSE
    /\ delta_t = DefaultFps
    /\ i_frame = 0
    /\ cap_pos = 0
    /\ ret = TRUE
    /\ frame = None
    /\ old_frame = None
    /\ wrap_offset = None

LoopStep ==
    \/ OpenCamera \/ CamCheckKill \/ CamDrain \/ CamDrainEmpty \/ CamBody
    \/ H5Start \/ H5Check \/ H5Drain \/ H5DrainEmpty \/ H5Emit
    \/ VidStart \/ VidRead \/ VidControl \/ VidControlEmpty \/ VidEmit

Next == LoopStep \/ Send \/ Kill \/ Consume

Spec == Init /\ [][Next]_vars

\* The process that runs the loop is scheduled as long as it can step.
FairSpec == Spec /\ WF_vars(LoopStep)

\* ------------------------------------------------------------ properties
IterationEnded == pc \in {"top", "crashed"} /\ last.mode # "none"

HoldsFrame(rb) == rb # NoRingBuffer /\ RbMostRecent(rb) >= 0

LiveDict == [paused |-> FALSE, replay |-> FALSE]

\* C2: in the camera loop, an iteration run with paused and replay both
\* true (replay_fps > 0) and a frame in the ring buffer forwards the ring
\* buffer's most recent frame and does not call get().
C2_PausedBeforeReplay ==
    ( /\ variant = "camera"
      /\ IterationEnded
      /\ HasAttr(state, "paused")
      /\ state.paused /\ state.replay /\ state.replay_fps > 0
      /\ HoldsFrame(ring_buffer) )
    => /\ last.mode = "paused"
       /\ ~last.got
       /\ last.put = RbMostRecent(ring_buffer)

\* C3: in Live mode with every read returning a frame and no saturation,
\* after N iterations the frames 0..N-1 have been forwarded, each once and
\* in order, and the ring buffer's most recent frame is N-1.
C3_LiveForwardsAll ==
    ( /\ variant = "camera"
      /\ IterationEnded
      /\ applied = << LiveDict >>
      /\ produced = iters )
    => /\ forwarded = [k \in 1..iters |-> [frame |-> k - 1, mode |-> "live"]]
       /\ HoldsFrame(ring_buffer)
       /\ RbMostRecent(ring_buffer) = iters - 1

\* C4: once a frame was written to the ring buffer in Live mode, every
\* iteration run while paused forwards the last frame written.
C4_PausedRepeatsLast ==
    ( /\ variant = "camera"
      /\ IterationEnded
      /\ HasAttr(state, "paused")
      /\ state.paused
      /\ HoldsFrame(ring_buffer) )
    => last.put = RbMostRecent(ring_buffer)

\* C5: the h5 loop with loop = false, offset 0 and no pause emits the frames
\* 0..NFrames-1 in order, each once, and then ends without raising.
NeverPaused ==
    \A k \in 1..Len(applied) :
        "paused" \in DOMAIN applied[k] => ~applied[k].paused

C5_PlaysOnce ==
    ( /\ variant = "h5"
      /\ ~loop
      /\ offset = 0
      /\ NeverPaused )
    => /\ Len(forwarded) <= NFrames
       /\ \A k \in 1..Len(forwarded) : forwarded[k].frame = k - 1
       /\ pc # "crashed"
       /\ Len(forwarded) = NFrames => pc = "done"
       /\ (pc = "done" /\ ~kill_event) => Len(forwarded) = NFrames

C5_Played ==
    /\ variant = "h5"
    /\ ~loop
    /\ offset = 0
    /\ NeverPaused
    /\ ~kill_event
    /\ pc = "done"
    /\ Len(forwarded) = NFrames

\* C6: receiving an offset update equal to the current offset changes
\* neither the stored offset nor the read position nor anything else the
\* loop emits from (h5 and video-file branches).
C6_SameOffsetNoEffect ==
    [][ ( /\ variant \in {"h5", "video"}
          /\ pc \in {"drain", "ctl"}
          /\ control_queue # << >>
          /\ control_queue' = Tail(control_queue)
          /\ Head(control_queue) = [offset |-> offset] )
        => UNCHANGED << offset, i_frame, cap_pos, paused, delta_t, ret,
                        frame, old_frame, frame_queue, forwarded >> ]_vars

C6_SameOffsetReceived ==
    /\ variant = "video"
    /\ pc = "emit"
    /\ applied = << [offset |-> 0] >>
    /\ offset = 0
    /\ cap_pos = 1

\* C7: once the kill event is set no new iteration begins, at most one more
\* frame is forwarded, the loop can always step until it has ended, and the
\* camera loop's exit releases the camera.
C7_KillEndsLoop ==
    /\ [](kill_event => Len(forwarded) - killed_at <= 1)
    /\ [][kill_event => iters' = iters]_vars
    /\ []((kill_event /\ Running) => ENABLED LoopStep)
    /\ []((variant = "camera" /\ pc = "done") => cam = "released")

C7_KilledMidIteration ==
    /\ kill_event
    /\ pc = "done"
    /\ Len(forwarded) - killed_at = 1

\* C8: the frames the camera loop forwards in Live mode are frames the
\* camera produced, in strictly increasing order of production.
LiveForwarded == SelectSeq(forwarded, LAMBDA e : e.mode = "live")

C9_ReleasedOnEveryExit ==
    (variant = "camera" /\ pc \in {"done", "crashed"}) => cam = "released"

\* C10: after end-of-stream with loop = true the next frame emitted is the
\* frame at the offset configured at the wrap, and the loop has not ended
\* (h5 and video-file branches).
C10_WrapsToOffset ==
    /\ ( /\ variant \in {"h5", "video"}
         /\ last.put # None
         /\ InFile(last.after_wrap) )
       => last.put = last.after_wrap
    /\ ( /\ variant \in {"h5", "video"}
         /\ loop
         /\ pc = "done" )
       => kill_event

\* C12: a source constructed with n_consumers = k admits Live frames
\* exactly while fewer than k + 2 are pending: its threshold is k + 2.
C12_ThresholdFollowsArgument ==
    variant = "camera" => Threshold = n_consumers_arg + 2

\* C13: when an iteration forwards or skips its frame, every control
\* dictionary that was pending when the iteration began has been received
\* (camera, h5 and video file).
C13_DrainsAllPending ==
    [][ (pc \in {"body", "emit"} /\ pc' # pc)
        => Len(applied) >= iter_start ]_vars

\* The ring buffer an iteration works on: made at line 165 when there is
\* none yet.
BufferInUse ==
    IF ring_buffer = NoRingBuffer
      THEN RingBuffer(state.ring_buffer_length)
      ELSE ring_buffer

BodyStep == variant = "camera" /\ pc = "body" /\ pc' # "body"

LiveState ==
    /\ HasAttr(state, "paused")
    /\ ModeOf(state) = "live"

\* C14: an iteration of the camera loop whose read returns None (Live mode,
\* no rotation) forwards nothing, leaves the ring buffer as it was and
\* goes on to the next iteration.
C14_NoneReadSkipped ==
    [][ (BodyStep /\ LiveState /\ ~rotation /\ last'.arr = None)
        => /\ pc' = "top"
           /\ forwarded' = forwarded
           /\ ring_buffer' = BufferInUse ]_vars

\* C15: an iteration of the camera loop that finds a ring buffer either
\* keeps it (ring_buffer_length equal to its capacity) or replaces it by an
\* empty one of the new capacity before the Live write, and the loop keeps
\* running.
C15_RingBufferRenewal ==
    [][ ( /\ BodyStep
          /\ LiveState
          /\ ring_buffer # NoRingBuffer
          /\ last'.arr # None )
        => /\ pc' = "top"
           /\ ring_buffer' =
                RbPut(IF state.ring_buffer_length # ring_buffer.length
                        THEN RingBuffer(state.ring_buffer_length)
                        ELSE ring_buffer,
                      last'.arr) ]_vars

\* C16: a Paused iteration of the camera loop that finds no frame in the
\* ring buffer forwards nothing and the loop goes on.
C16_PausedEmptyContinues ==
    [][ ( /\ BodyStep
          /\ HasAttr(state, "paused")
          /\ state.paused
          /\ ring_buffer = NoRingBuffer )
        => /\ pc' = "top"
           /\ forwarded' = forwarded ]_vars

\* C17: a Replay iteration of the camera loop whose get() fails forwards
\* nothing, leaves the ring buffer as it was and goes on to the next
\* iteration.
C17_ReplayEmptyContinues ==
    [][ ( /\ BodyStep
          /\ HasAttr(state, "paused")
          /\ ModeOf(state) = "replay"
          /\ ~RingBufferCheckRaises(ring_buffer, state)
          /\ ~(rotation /\ last'.arr = None)
          /\ RbGetFails(BufferInUse) )
        => /\ pc' = "top"
           /\ forwarded' = forwarded
           /\ frame_queue' = frame_queue
           /\ ring_buffer' = BufferInUse ]_vars

C17_ReplayGetFailed ==
    /\ variant = "camera"
    /\ pc = "top"
    /\ last.mode = "replay"
    /\ last.got
    /\ last.put = None
    /\ ring_buffer = RingBuffer(state.ring_buffer_length)

\* C18: while the camera loop is paused and not killed, it has not ended
\* with an update paused = false still waiting on the control queue.
UnpausePending ==
    \E k \in 1..Len(control_queue) :
        /\ "paused" \in DOMAIN control_queue[k]
        /\ ~control_queue[k].paused

C18_UnpauseReceived ==
    ( /\ variant = "camera"
      /\ HasAttr(state, "paused")
      /\ state.paused
      /\ UnpausePending
      /\ ~kill_event )
    => pc # "crashed"

\* C19: an h5 iteration run while paused does not advance i_frame and emits
\* the frame that was emitted last.
C19_PausedRepeatsEmitted ==
    [][ ( /\ variant = "h5"
          /\ pc = "emit"
          /\ paused
          /\ forwarded # << >>
          /\ Len(forwarded') > Len(forwarded) )
        => /\ i_frame' = i_frame
           /\ forwarded'[Len(forwarded')].frame
                = forwarded[Len(forwarded)].frame ]_vars

\* C20: the index the h5 loop reads frames[i_frame] with is in
\* 0..NFrames-1.
C20_IndexInFile ==
    (variant = "h5" /\ pc = "emit") => InFile(i_frame)

====
